---- MODULE Spec2Model ----
(***************************************************************************)
(* Model of the rads primitives: the Peterson lock (sync/peterson.rs), the *)
(* vector clock and its process (order/vector_clock.rs) and the matrix     *)
(* clock with its garbage-collecting process (order/matrix_clock.rs).      *)
(*                                                                         *)
(* Rust indices are 0-based and kept 0-based here: a Vec<usize> of length  *)
(* n is a function with domain 0..n-1.                                     *)
(***************************************************************************)
EXTENDS Naturals, Integers, Sequences, FiniteSets, TLC

VARIABLES
    \* ---- sync/peterson.rs: struct Peterson, the two role threads and the
    \*      data their critical sections touch (tests::TestData)
    a_wants,    \* Peterson.a_wants
    b_wants,    \* Peterson.b_wants
    a_turn,     \* Peterson.a_turn
    pcA,        \* position of the thread that owns PetersonA
    pcB,        \* position of the thread that owns PetersonB
    data,       \* TestData: data[0] is TestData.0, data[1] is TestData.1
    locA,       \* add_then_sub's locals: locA.i, locA.d
    locB,       \* sub_then_add's locals: locB.i, locB.d
    aWaited,    \* history: A spun (both stores done) while B was Held, A not released since
    bWaited,    \* history: B spun (both stores done) while A was Held, B not released since
    \* ---- order: one run of n processes, a VecProcess and a GCProcess per
    \*      index driven by the same schedule of exec / send / recv
    nprocs,     \* n_procs of the run
    vp,         \* vp[i]: VecProcess.events of process i
    gp,         \* gp[i]: GCProcess.events of process i (a VecDeque: events, head, cap)
    net,        \* clock snapshots handed out by send and not yet passed to a recv
    ret,        \* what the most recent call returned, when it was GCProcess::gc
    vpast,      \* history: vpast[i][k] is the set of events that happen before event k of i
    mall,       \* history: mall[i] is every matrix clock process i generated, evicted or not
    \* ---- tests::gc_after_all_seen, the script of the test
    ringM,      \* n_events
    ringPc,     \* the statement the test is at
    ringK,      \* loop counter of the statement
    \* ---- one call of a clock operation on given arguments
    call,       \* the operation and its arguments
    result      \* its result; result.done is FALSE before the call is made

petersonVars == <<a_wants, b_wants, a_turn, pcA, pcB, data, locA, locB, aWaited, bWaited>>
clockVars == <<nprocs, vp, gp, net, ret, vpast, mall>>
ringVars == <<ringM, ringPc, ringK>>
pureVars == <<call, result>>
vars == <<a_wants, b_wants, a_turn, pcA, pcB, data, locA, locB, aWaited, bWaited,
          nprocs, vp, gp, net, ret, vpast, mall, ringM, ringPc, ringK, call, result>>

(***************************************************************************)
(*                         sync/peterson.rs                                *)
(***************************************************************************)
\* The counters of TestData are kept modulo CounterMod (the lock never reads them).
CounterMod == 3

\* Positions of a role thread.  "idle": no acquire pending (Idle).  "turn":
\* the want flag is stored, the turn store is next.  "ldw"/"ldt": inside the
\* while condition, about to load the other want flag / the turn flag.
\* "cs0".."cs3": acquire has returned and the guard is alive (Held), the
\* number says how many of the four accesses of the critical section are
\* done.  "drop": still Held, the guard is dropped next.
Spinning == {"ldw", "ldt"}
Acquiring == {"turn", "ldw", "ldt"}
Held == {"cs0", "cs1", "cs2", "cs3", "drop"}

\* Peterson::default() and TestData::default(): every AtomicBool is false,
\* both counters are 0, no thread has called acquire.
PetersonInit ==
    /\ a_wants = FALSE
    /\ b_wants = FALSE
    /\ a_turn = FALSE
    /\ pcA = "idle"
    /\ pcB = "idle"
    /\ data = [k \in 0..1 |-> 0]
    /\ locA = [i |-> 0, d |-> 0]
    /\ locB = [i |-> 0, d |-> 0]
    /\ aWaited = FALSE
    /\ bWaited = FALSE

\* PetersonA::acquire, first store.
AStoreWants ==
    /\ pcA = "idle"
    /\ a_wants' = TRUE
    /\ pcA' = "turn"
    /\ UNCHANGED <<b_wants, a_turn, pcB, data, locA, locB>>

AStoreTurn_FavorsSelf ==
    /\ pcA = "turn"
    /\ a_turn' = TRUE
    /\ pcA' = "ldw"
    /\ UNCHANGED <<a_wants, b_wants, pcB, data, locA, locB>>

\* PetersonA::acquire, second store: the turn goes to B.
AStoreTurn ==
    /\ pcA = "turn"
    /\ a_turn' = FALSE
    /\ pcA' = "ldw"
    /\ UNCHANGED <<a_wants, b_wants, pcB, data, locA, locB>>

ALoadWants_NoShortCircuit ==
    /\ pcA = "ldw"
    /\ pcA' = "ldt"
    /\ UNCHANGED <<a_wants, b_wants, a_turn, pcB, data, locA, locB>>

\* PetersonA::acquire, left operand of the while condition (short-circuit &&);
\* when the loop ends the guard is returned.
ALoadWants ==
    /\ pcA = "ldw"
    /\ pcA' = IF b_wants THEN "ldt" ELSE "cs0"
    /\ UNCHANGED <<a_wants, b_wants, a_turn, pcB, data, locA, locB>>

\* PetersonA::acquire, right operand of the while condition; the loop body
\* spin_loop() is a processor hint.
ALoadTurn ==
    /\ pcA = "ldt"
    /\ pcA' = IF ~a_turn THEN "ldw" ELSE "cs0"
    /\ UNCHANGED <<a_wants, b_wants, a_turn, pcB, data, locA, locB>>

\* TestData::add_then_sub, run by thread A under its guard: load .0, load .1,
\* store .0, store .1.
ACritical ==
    /\ pcA \in {"cs0", "cs1", "cs2", "cs3"}
    /\ CASE pcA = "cs0" -> /\ locA' = [locA EXCEPT !.i = data[0]]
                           /\ pcA' = "cs1"
                           /\ UNCHANGED data
         [] pcA = "cs1" -> /\ locA' = [locA EXCEPT !.d = data[1]]
                           /\ pcA' = "cs2"
                           /\ UNCHANGED data
         [] pcA = "cs2" -> /\ data' = [data EXCEPT ![0] = (locA.i + 1) % CounterMod]
                           /\ pcA' = "cs3"
                           /\ UNCHANGED locA
         [] pcA = "cs3" -> /\ data' = [data EXCEPT ![1] = (locA.d + CounterMod - 1) % CounterMod]
                           /\ pcA' = "drop"
                           /\ UNCHANGED locA
    /\ UNCHANGED <<a_wants, b_wants, a_turn, pcB, locB>>

ARelease_KeepsFlag ==
    /\ pcA = "drop"
    /\ pcA' = "idle"
    /\ UNCHANGED <<a_wants, b_wants, a_turn, pcB, data, locA, locB>>

\* PetersonA::release, called when the guard goes out of scope.
ARelease ==
    /\ pcA = "drop"
    /\ a_wants' = FALSE
    /\ pcA' = "idle"
    /\ UNCHANGED <<b_wants, a_turn, pcB, data, locA, locB>>

\* PetersonB::acquire, first store.
BStoreWants ==
    /\ pcB = "idle"
    /\ b_wants' = TRUE
    /\ pcB' = "turn"
    /\ UNCHANGED <<a_wants, a_turn, pcA, data, locA, locB>>

BStoreTurn_Skipped ==
    /\ pcB = "turn"
    /\ pcB' = "ldw"
    /\ UNCHANGED <<a_wants, b_wants, a_turn, pcA, data, locA, locB>>

\* PetersonB::acquire, second store: the turn goes to A.
BStoreTurn ==
    /\ pcB = "turn"
    /\ a_turn' = TRUE
    /\ pcB' = "ldw"
    /\ UNCHANGED <<a_wants, b_wants, pcA, data, locA, locB>>

\* PetersonB::acquire, left operand of the while condition.
BLoadWants ==
    /\ pcB = "ldw"
    /\ pcB' = IF a_wants THEN "ldt" ELSE "cs0"
    /\ UNCHANGED <<a_wants, b_wants, a_turn, pcA, data, locA, locB>>

\* PetersonB::acquire, right operand of the while condition.
BLoadTurn ==
    /\ pcB = "ldt"
    /\ pcB' = IF a_turn THEN "ldw" ELSE "cs0"
    /\ UNCHANGED <<a_wants, b_wants, a_turn, pcA, data, locA, locB>>

\* TestData::sub_then_add, run by thread B under its guard: load .1, load .0,
\* store .1, store .0.
BCritical ==
    /\ pcB \in {"cs0", "cs1", "cs2", "cs3"}
    /\ CASE pcB = "cs0" -> /\ locB' = [locB EXCEPT !.d = data[1]]
                           /\ pcB' = "cs1"
                           /\ UNCHANGED data
         [] pcB = "cs1" -> /\ locB' = [locB EXCEPT !.i = data[0]]
                           /\ pcB' = "cs2"
                           /\ UNCHANGED data
         [] pcB = "cs2" -> /\ data' = [data EXCEPT ![1] = (locB.d + CounterMod - 1) % CounterMod]
                           /\ pcB' = "cs3"
                           /\ UNCHANGED locB
         [] pcB = "cs3" -> /\ data' = [data EXCEPT ![0] = (locB.i + 1) % CounterMod]
                           /\ pcB' = "drop"
                           /\ UNCHANGED locB
    /\ UNCHANGED <<a_wants, b_wants, a_turn, pcA, locA>>

\* PetersonB::release, called when the guard goes out of scope.
BRelease ==
    /\ pcB = "drop"
    /\ b_wants' = FALSE
    /\ pcB' = "idle"
    /\ UNCHANGED <<a_wants, a_turn, pcA, data, locA, locB>>

\* History of waiting, a function of the step taken: a role "waited" from the
\* moment it spins while the other role is Held until it has released.
Waited ==
    /\ aWaited' = IF pcA' = "idle" THEN FALSE
                  ELSE IF pcA' \in Spinning /\ pcB' \in Held THEN TRUE
                  ELSE aWaited
    /\ bWaited' = IF pcB' = "idle" THEN FALSE
                  ELSE IF pcB' \in Spinning /\ pcA' \in Held THEN TRUE
                  ELSE bWaited

\* The steps of thread A after its acquire has begun, and of thread B.
AProgress ==
    /\ AStoreTurn \/ ALoadWants \/ ALoadTurn \/ ACritical \/ ARelease
    /\ Waited
    /\ UNCHANGED <<clockVars, ringVars, pureVars>>
BProgress ==
    /\ BStoreTurn \/ BLoadWants \/ BLoadTurn \/ BCritical \/ BRelease
    /\ Waited
    /\ UNCHANGED <<clockVars, ringVars, pureVars>>

PetersonNext ==
    \/ AStoreWants /\ Waited /\ UNCHANGED <<clockVars, ringVars, pureVars>>
    \/ AProgress
    \/ BStoreWants /\ Waited /\ UNCHANGED <<clockVars, ringVars, pureVars>>
    \/ BProgress

\* The parts of the state the lock has nothing to do with.
NoRet == [op |-> "other", p |-> 0, val |-> <<>>]
NoClocks ==
    /\ nprocs = 0
    /\ vp = <<>>
    /\ gp = <<>>
    /\ net = {}
    /\ ret = NoRet
    /\ vpast = <<>>
    /\ mall = <<>>
NoRing == ringM = 0 /\ ringPc = "off" /\ ringK = 0
NoCall == call = [op |-> "none"] /\ result = [done |-> FALSE]

\* One thread per role, each looping acquire -> critical section -> release
\* (tests::mutual_exclusion), any interleaving.
LockInit == PetersonInit /\ NoClocks /\ NoRing /\ NoCall
SpecPeterson == LockInit /\ [][PetersonNext]_vars

\* The same under a scheduler that eventually runs every ready thread; a
\* thread is free never to call acquire again.
SpecPetersonFair ==
    /\ LockInit
    /\ [][PetersonNext]_vars
    /\ WF_vars(AProgress)
    /\ WF_vars(BProgress)


(***************************************************************************)
(*                 order: the shared utility (order/mod.rs)                *)
(***************************************************************************)
Max(a, b) == IF a >= b THEN a ELSE b

\* Number of entries of a Vec modelled as a function on 0..n-1.
Size(v) == Cardinality(DOMAIN v)

\* The last element of a non-empty sequence (Vec::last, VecDeque::back).
Last(s) == s[Len(s)]

\* pairwise_max: the elementwise maximum of two iterators, as long as the shorter.
PairwiseMax_Min(u, v) ==
    [k \in (DOMAIN u) \cap (DOMAIN v) |-> IF u[k] <= v[k] THEN u[k] ELSE v[k]]

PairwiseMax(u, v) ==
    [k \in (DOMAIN u) \cap (DOMAIN v) |-> Max(u[k], v[k])]

\* Ordering of two usize values: s.cmp(t).
Cmp(s, t) == IF s < t THEN "Less" ELSE IF s > t THEN "Greater" ELSE "Equal"

\* The closure of try_fold in both partial_cmp implementations; "None" ends the fold.
CmpStep(acc, ord) ==
    IF (acc = "Less" /\ ord = "Greater") \/ (acc = "Greater" /\ ord = "Less") THEN "None"
    ELSE IF ord = "Less" \/ acc = "Less" THEN "Less"
    ELSE IF ord = "Greater" \/ acc = "Greater" THEN "Greater"
    ELSE "Equal"

\* try_fold over the zip of two sequences of counters, left to right from position k.
RECURSIVE CmpFold(_, _, _, _)
CmpFold(acc, s, t, k) ==
    IF k > Len(s) \/ k > Len(t) THEN acc
    ELSE LET r == CmpStep(acc, Cmp(s[k], t[k]))
         IN  IF r = "None" THEN "None" ELSE CmpFold(r, s, t, k + 1)

(***************************************************************************)
(*                        order/vector_clock.rs                            *)
(***************************************************************************)
VNew_Zero(i, n) == [i |-> i, clk |-> [j \in 0..(n - 1) |-> 0]]

\* The assertion of VectorClock::new.
VNewAssert(i, n) == i < n

\* VectorClock::new: the unit vector of process i.
VNew(i, n) == [i |-> i, clk |-> [j \in 0..(n - 1) |-> IF i = j THEN 1 ELSE 0]]

VExtend_NoTick(c) == c

\* VectorClock::extend.
VExtend(c) == [c EXCEPT !.clk[c.i] = @ + 1]

\* The two debug assertions of VectorClock::merge.
VMergeAssert(c, other) ==
    /\ Size(c.clk) = Size(other.clk)
    /\ c.clk[c.i] >= other.clk[c.i]

VMerge_IgnoresOther(c, other) == [c EXCEPT !.clk[c.i] = @ + 1]

VMerge_NoTick(c, other) ==
    [i |-> c.i, clk |-> PairwiseMax(c.clk, other.clk)]

VMerge_TicksAll(c, other) ==
    LET m == PairwiseMax(c.clk, other.clk)
    IN  [i |-> c.i, clk |-> [k \in DOMAIN m |-> m[k] + 1]]

\* VectorClock::merge: elementwise maximum, then the owner's counter + 1.
VMerge(c, other) ==
    LET m == PairwiseMax(c.clk, other.clk)
    IN  [i |-> c.i, clk |-> [k \in DOMAIN m |-> m[k] + (IF k = c.i THEN 1 ELSE 0)]]

\* The counters of a vector clock in iteration order.
VIter(c) == [k \in 1..Size(c.clk) |-> c.clk[k - 1]]

\* PartialOrd for VectorClock; "None" is the incomparable outcome.
VPartialCmp(s, t) ==
    IF Size(s.clk) # Size(t.clk) THEN "None"
    ELSE CmpFold("Equal", VIter(s), VIter(t), 1)

\* PartialEq for VectorClock.
VEq(s, t) == s.i = t.i /\ s.clk = t.clk

(***************************************************************************)
(*                        order/matrix_clock.rs                            *)
(***************************************************************************)
\* MatrixClock::new: row i is the unit vector, every other row is zero.
MNew(i, n) ==
    [i |-> i,
     clk |-> [j \in 0..(n - 1) |->
                 IF i = j THEN [k \in 0..(n - 1) |-> IF i = k THEN 1 ELSE 0]
                 ELSE [k \in 0..(n - 1) |-> 0]]]

MExtend_TicksRow(c) ==
    [c EXCEPT !.clk[c.i] = [k \in DOMAIN @ |-> @[k] + 1]]

\* MatrixClock::extend.
MExtend(c) == [c EXCEPT !.clk[c.i][c.i] = @ + 1]

\* The fold of MatrixClock::merge: the maximum of one column over the rows r.. in order.
RECURSIVE ColFold(_, _, _, _)
ColFold(acc, clk, col, r) ==
    IF r \notin DOMAIN clk THEN acc
    ELSE ColFold(Max(clk[r][col], acc), clk, col, r + 1)

MMerge_NoTick(c, other) ==
    LET z == [k \in (DOMAIN c.clk) \cap (DOMAIN other.clk) |->
                 PairwiseMax(c.clk[k], other.clk[k])]
        own == [col \in 0..(Size(c.clk) - 1) |-> ColFold(0, z, col, 0)]
    IN  [i |-> c.i, clk |-> [z EXCEPT ![c.i] = own]]

MMerge_OwnRowUnmerged(c, other) ==
    LET z == [k \in (DOMAIN c.clk) \cap (DOMAIN other.clk) |->
                 PairwiseMax(c.clk[k], other.clk[k])]
        w == [z EXCEPT ![c.i] = c.clk[c.i]]
    IN  [i |-> c.i, clk |-> [w EXCEPT ![c.i][c.i] = @ + 1]]

MMerge_KeepsOwnRow(c, other) ==
    LET z == [k \in (DOMAIN c.clk) \cap (DOMAIN other.clk) |->
                 PairwiseMax(c.clk[k], other.clk[k])]
    IN  [i |-> c.i, clk |-> [z EXCEPT ![c.i][c.i] = @ + 1]]

\* MatrixClock::merge: the maximum of every row, then the owner's row is the
\* maximum of every column, then the owner's own counter + 1.
MMerge(c, other) ==
    LET z == [k \in (DOMAIN c.clk) \cap (DOMAIN other.clk) |->
                 PairwiseMax(c.clk[k], other.clk[k])]
        own == [col \in 0..(Size(c.clk) - 1) |-> ColFold(0, z, col, 0)]
        w == [z EXCEPT ![c.i] = own]
    IN  [i |-> c.i, clk |-> [w EXCEPT ![c.i][c.i] = @ + 1]]

\* The entries of a matrix clock flattened in row-major order.
RECURSIVE Flatten(_, _)
Flatten(clk, r) ==
    IF r >= Size(clk) THEN <<>>
    ELSE [k \in 1..Size(clk[r]) |-> clk[r][k - 1]] \o Flatten(clk, r + 1)

MPartialCmp_OwnRowOnly(s, t) ==
    IF Size(s.clk) # Size(t.clk) THEN "None"
    ELSE CmpFold("Equal", [k \in 1..Size(s.clk[s.i]) |-> s.clk[s.i][k - 1]],
                          [k \in 1..Size(t.clk[s.i]) |-> t.clk[s.i][k - 1]], 1)

\* PartialOrd for MatrixClock over the whole matrix; "None" is incomparable.
MPartialCmp(s, t) ==
    IF Size(s.clk) # Size(t.clk) THEN "None"
    ELSE CmpFold("Equal", Flatten(s.clk, 0), Flatten(t.clk, 0), 1)

\* PartialEq for MatrixClock.
MEq(s, t) == s.clk = t.clk

MStable_Exactly(c, latest) ==
    LET seq == c.clk[c.i][c.i]
    IN  \A k \in DOMAIN latest.clk : latest.clk[k][c.i] = seq

MStable_OwnRowOnly(c, latest) ==
    latest.clk[c.i][c.i] >= c.clk[c.i][c.i]

\* GCClock::gc for MatrixClock: has every row of latest seen my sequence number?
MStable(c, latest) ==
    LET seq == c.clk[c.i][c.i]
    IN  \A k \in DOMAIN latest.clk : latest.clk[k][c.i] >= seq

(***************************************************************************)
(*        GCProcess.events: the VecDeque behind the event log              *)
(***************************************************************************)
\* The smallest non-zero capacity a growing buffer of clocks gets.
MinNonZeroCap == 4

\* VecDeque::new.
DqNew == [events |-> <<>>, head |-> 0, cap |-> 0]

\* VecDeque::push_back (HasEvents::push_event): a full buffer doubles first;
\* a wrapped buffer is made to fit the new capacity by moving its shorter part.
DqPushBack(dq, e) ==
    LET len == Len(dq.events)
        full == len = dq.cap
        newCap == IF ~full THEN dq.cap
                  ELSE IF dq.cap = 0 THEN MinNonZeroCap ELSE 2 * dq.cap
        headLen == dq.cap - dq.head
        tailLen == len - headLen
        newHead == IF ~full \/ dq.head = 0 THEN dq.head
                   ELSE IF headLen > tailLen /\ newCap - dq.cap >= tailLen THEN dq.head
                   ELSE newCap - headLen
    IN  [events |-> Append(dq.events, e), head |-> newHead, cap |-> newCap]

\* VecDeque::drain(..i): the first i elements leave, the head moves behind them;
\* an emptied deque starts again at 0.
DqDrain(dq, i) ==
    LET len == Len(dq.events)
    IN  [events |-> SubSeq(dq.events, i + 1, len),
         head |-> IF len - i = 0 THEN 0 ELSE (dq.head + i) % dq.cap,
         cap |-> dq.cap]

\* VecDeque::as_slices: the log in at most two contiguous pieces.
DqFront(dq) ==
    IF dq.head + Len(dq.events) <= dq.cap THEN dq.events
    ELSE SubSeq(dq.events, 1, dq.cap - dq.head)
DqBack(dq) ==
    IF dq.head + Len(dq.events) <= dq.cap THEN <<>>
    ELSE SubSeq(dq.events, dq.cap - dq.head + 1, Len(dq.events))

\* slice::partition_point: binary search for the first element (0-based
\* index) that fails the stability test against latest.
RECURSIVE BinarySearch(_, _, _, _)
BinarySearch(s, latest, left, right) ==
    IF left >= right THEN left
    ELSE LET mid == left + ((right - left) \div 2)
         IN  IF MStable(s[mid + 1], latest)
             THEN BinarySearch(s, latest, mid + 1, right)
             ELSE BinarySearch(s, latest, left, mid)

\* VecDeque::partition_point(|c| c.gc(latest)): searches the back piece when
\* its first element passes the test, the front piece otherwise.
PartitionPoint(dq, latest) ==
    LET front == DqFront(dq)
        back == DqBack(dq)
    IN  IF back # <<>> /\ MStable(back[1], latest)
        THEN Len(front) + BinarySearch(back, latest, 0, Len(back))
        ELSE BinarySearch(front, latest, 0, Len(front))

GcCut_OneMore(dq) ==
    IF dq.events = <<>> THEN 0
    ELSE LET p == PartitionPoint(dq, Last(dq.events))
         IN  IF p < Len(dq.events) THEN p + 1 ELSE p

\* GCProcess::gc, the cut: 0 on an empty log, else the partition point
\* against the last event.
GcCut(dq) ==
    IF dq.events = <<>> THEN 0
    ELSE PartitionPoint(dq, Last(dq.events))

\* GCProcess::gc, what it returns and what it leaves.
GcEvicted(dq) == SubSeq(dq.events, 1, GcCut(dq))
GcKept_Clear(dq) == DqDrain(dq, Len(dq.events))
GcKept(dq) == DqDrain(dq, GcCut(dq))

\* GCProcess::events: the first piece of as_slices.
GcEvents(dq) == DqFront(dq)

(***************************************************************************)
(*   order/mod.rs: OrdProcess, the three event-generating operations       *)
(***************************************************************************)
\* Local execution and send: extend the last clock, or create a fresh one
\* when this is the first event.
VNextClock(log, i, n) == IF log = <<>> THEN VNew(i, n) ELSE VExtend(Last(log))
MNextClock(log, i, n) == IF log = <<>> THEN MNew(i, n) ELSE MExtend(Last(log))

\* Receive: merge the received clock into the last clock; on an empty log
\* into a fresh clock of the received clock's size.
VRecvClock(log, i, e) ==
    IF log = <<>> THEN VMerge(VNew(i, Size(e.clk)), e) ELSE VMerge(Last(log), e)
MRecvClock(log, i, e) ==
    IF log = <<>> THEN MMerge(MNew(i, Size(e.clk)), e) ELSE MMerge(Last(log), e)

(***************************************************************************)
(*      A run: n processes, every delivery order, gc at any moment         *)
(***************************************************************************)
NProcs == 3         \* the largest n_procs of a run
MaxEvents == 10     \* events generated in a run, shared equally among its processes
MaxInFlight == 2    \* snapshots sent and not yet received

Procs == 0..(nprocs - 1)

\* The events one process may generate.
PerProc == MaxEvents \div nprocs

\* VecProcess::new and GCProcess::new for every index below n_procs.
ClocksInit ==
    /\ nprocs \in 1..NProcs
    /\ vp = [i \in 0..(nprocs - 1) |-> <<>>]
    /\ gp = [i \in 0..(nprocs - 1) |-> DqNew]
    /\ net = {}
    /\ ret = NoRet
    /\ vpast = [i \in 0..(nprocs - 1) |-> <<>>]
    /\ mall = [i \in 0..(nprocs - 1) |-> <<>>]

\* The events that happen before the next event of process i.
PastOfNext(i) ==
    IF vp[i] = <<>> THEN {}
    ELSE Last(vpast[i]) \cup {<<i, Len(vp[i])>>}

\* OrdProcess::exec at process i.
Exec(i) ==
    /\ Len(vp[i]) < PerProc
    /\ vp' = [vp EXCEPT ![i] = Append(@, VNextClock(vp[i], i, nprocs))]
    /\ gp' = [gp EXCEPT ![i] = DqPushBack(@, MNextClock(gp[i].events, i, nprocs))]
    /\ mall' = [mall EXCEPT ![i] = Append(@, MNextClock(gp[i].events, i, nprocs))]
    /\ vpast' = [vpast EXCEPT ![i] = Append(@, PastOfNext(i))]
    /\ ret' = NoRet
    /\ UNCHANGED <<nprocs, net>>

\* OrdProcess::send at process i: the new clock is appended and handed out.
Send(i) ==
    /\ Len(vp[i]) < PerProc
    /\ Cardinality(net) < MaxInFlight
    /\ vp' = [vp EXCEPT ![i] = Append(@, VNextClock(vp[i], i, nprocs))]
    /\ gp' = [gp EXCEPT ![i] = DqPushBack(@, MNextClock(gp[i].events, i, nprocs))]
    /\ mall' = [mall EXCEPT ![i] = Append(@, MNextClock(gp[i].events, i, nprocs))]
    /\ vpast' = [vpast EXCEPT ![i] = Append(@, PastOfNext(i))]
    /\ net' = net \cup {[from |-> i, idx |-> Len(vp[i]) + 1,
                         vc |-> VNextClock(vp[i], i, nprocs),
                         mc |-> MNextClock(gp[i].events, i, nprocs)]}
    /\ ret' = NoRet
    /\ UNCHANGED nprocs

\* OrdProcess::recv at process i of a snapshot another process sent.
Recv(i, m) ==
    /\ Len(vp[i]) < PerProc
    /\ m \in net
    /\ m.from # i
    /\ vp' = [vp EXCEPT ![i] = Append(@, VRecvClock(vp[i], i, m.vc))]
    /\ gp' = [gp EXCEPT ![i] = DqPushBack(@, MRecvClock(gp[i].events, i, m.mc))]
    /\ mall' = [mall EXCEPT ![i] = Append(@, MRecvClock(gp[i].events, i, m.mc))]
    /\ vpast' = [vpast EXCEPT ![i] =
                    Append(@, PastOfNext(i) \cup vpast[m.from][m.idx]
                                            \cup {<<m.from, m.idx>>})]
    /\ net' = net \ {m}
    /\ ret' = NoRet
    /\ UNCHANGED nprocs

\* GCProcess::gc at process i.
Gc(i) ==
    /\ gp' = [gp EXCEPT ![i] = GcKept(@)]
    /\ ret' = [op |-> "gc", p |-> i, val |-> GcEvicted(gp[i])]
    /\ UNCHANGED <<nprocs, vp, net, vpast, mall>>

\* The processes exchange clocks; nobody collects garbage.
RunNext ==
    /\ \/ \E i \in Procs : Exec(i)
       \/ \E i \in Procs : Send(i)
       \/ \E i \in Procs : \E m \in net : Recv(i, m)
    /\ UNCHANGED <<petersonVars, ringVars, pureVars>>

\* The run starts with empty logs; the lock and the other parts stay as constructed.
RunInit == ClocksInit /\ PetersonInit /\ NoRing /\ NoCall
SpecRun == RunInit /\ [][RunNext]_vars

\* The same run with gc called at any process at any moment.
GcNext ==
    /\ \/ \E i \in Procs : Exec(i)
       \/ \E i \in Procs : Send(i)
       \/ \E i \in Procs : \E m \in net : Recv(i, m)
       \/ \E i \in Procs : Gc(i)
    /\ UNCHANGED <<petersonVars, ringVars, pureVars>>

SpecGc == RunInit /\ [][GcNext]_vars

\* The runs with gc again, cut after ShortEvents events: short enough to
\* compare every event with every other in every state.
ShortEvents == 8    \* the number of events of a short run
WithinShort == \A i \in Procs : Len(vp[i]) <= ShortEvents \div nprocs
ShortNext == GcNext /\ WithinShort'
SpecGcShort == RunInit /\ [][ShortNext]_vars

(***************************************************************************)
(*          tests::gc_after_all_seen: a token around the ring              *)
(***************************************************************************)
RingMaxN == 4       \* the largest n_procs the test draws
RingMaxM == 5       \* the largest n_events the test draws

\* let mut ps = (0..n_procs).map(|i| GCProcess::new(i, n_procs)), with
\* n_procs >= 2 and n_events >= 1 drawn at random.
RingInit ==
    /\ nprocs \in 2..RingMaxN
    /\ ringM \in 1..RingMaxM
    /\ ringPc = "exec"
    /\ ringK = 0
    /\ gp = [i \in 0..(nprocs - 1) |-> DqNew]
    /\ net = {}
    /\ ret = NoRet
    /\ vp = <<>>
    /\ vpast = <<>>
    /\ mall = <<>>

\* for _ in 0..n_events { ps[0].exec(|| {}) }
RingExec ==
    /\ ringPc = "exec"
    /\ gp' = [gp EXCEPT ![0] = DqPushBack(@, MNextClock(gp[0].events, 0, nprocs))]
    /\ ringK' = IF ringK + 1 < ringM THEN ringK + 1 ELSE 0
    /\ ringPc' = IF ringK + 1 < ringM THEN "exec" ELSE "gc0"
    /\ ret' = NoRet
    /\ UNCHANGED <<nprocs, ringM, net, vp, vpast, mall>>

\* ps[0].gc(), after the local events and after every hop; ringK counts the hops done.
RingGc ==
    /\ ringPc \in {"gc0", "gc"}
    /\ gp' = [gp EXCEPT ![0] = GcKept(@)]
    /\ ret' = [op |-> "gc", p |-> 0, val |-> GcEvicted(gp[0])]
    /\ ringPc' = IF ringK + 1 < nprocs THEN "send" ELSE "lastsend"
    /\ UNCHANGED <<nprocs, ringM, ringK, net, vp, vpast, mall>>

\* ps[i].send(|ev| e = Some(ev)), the hop from i = ringK to j = ringK + 1.
RingSend ==
    /\ ringPc = "send"
    /\ gp' = [gp EXCEPT ![ringK] = DqPushBack(@, MNextClock(gp[ringK].events, ringK, nprocs))]
    /\ net' = {MNextClock(gp[ringK].events, ringK, nprocs)}
    /\ ringPc' = "recv"
    /\ ret' = NoRet
    /\ UNCHANGED <<nprocs, ringM, ringK, vp, vpast, mall>>

\* ps[j].recv(|| e.unwrap())
RingRecv ==
    /\ ringPc = "recv"
    /\ \E e \in net :
           gp' = [gp EXCEPT ![ringK + 1] = DqPushBack(@, MRecvClock(gp[ringK + 1].events, ringK + 1, e))]
    /\ net' = {}
    /\ ringK' = ringK + 1
    /\ ringPc' = "gc"
    /\ ret' = NoRet
    /\ UNCHANGED <<nprocs, ringM, vp, vpast, mall>>

\* ps.last_mut().unwrap().send(|ev| e = Some(ev))
RingLastSend ==
    /\ ringPc = "lastsend"
    /\ gp' = [gp EXCEPT ![nprocs - 1] =
                 DqPushBack(@, MNextClock(gp[nprocs - 1].events, nprocs - 1, nprocs))]
    /\ net' = {MNextClock(gp[nprocs - 1].events, nprocs - 1, nprocs)}
    /\ ringPc' = "lastrecv"
    /\ ret' = NoRet
    /\ UNCHANGED <<nprocs, ringM, ringK, vp, vpast, mall>>

\* ps[0].recv(|| e.unwrap())
RingLastRecv ==
    /\ ringPc = "lastrecv"
    /\ \E e \in net :
           gp' = [gp EXCEPT ![0] = DqPushBack(@, MRecvClock(gp[0].events, 0, e))]
    /\ net' = {}
    /\ ringPc' = "lastgc"
    /\ ret' = NoRet
    /\ UNCHANGED <<nprocs, ringM, ringK, vp, vpast, mall>>

\* let gc = ps[0].gc()
RingLastGc ==
    /\ ringPc = "lastgc"
    /\ gp' = [gp EXCEPT ![0] = GcKept(@)]
    /\ ret' = [op |-> "gc", p |-> 0, val |-> GcEvicted(gp[0])]
    /\ ringPc' = "done"
    /\ UNCHANGED <<nprocs, ringM, ringK, net, vp, vpast, mall>>

RingNext ==
    /\ \/ RingExec
       \/ RingGc
       \/ RingSend
       \/ RingRecv
       \/ RingLastSend
       \/ RingLastRecv
       \/ RingLastGc
    /\ UNCHANGED <<petersonVars, pureVars>>

ScenarioInit == RingInit /\ PetersonInit /\ NoCall
SpecRing == ScenarioInit /\ [][RingNext]_vars

(***************************************************************************)
(*        One call of a clock operation on arbitrary arguments             *)
(***************************************************************************)
CallVecN == 3       \* the largest n_procs of a vector clock argument
CallMatN == 2       \* the largest n_procs of a matrix clock argument
CallMaxCtr == 2     \* the largest counter of an argument

\* Every vector clock and every matrix clock of n processes within the bounds.
VClocks(n) ==
    {[i |-> i, clk |-> c] : i \in 0..(n - 1), c \in [0..(n - 1) -> 0..CallMaxCtr]}
MClocks(n) ==
    {[i |-> i, clk |-> c] : i \in 0..(n - 1),
                            c \in [0..(n - 1) -> [0..(n - 1) -> 0..CallMaxCtr]]}

\* One call on arguments within the bounds:
\*   f1.merge(&e1)        on two clocks of the same kind and the same n_procs,
\*   c.extend()           on one clock,
\*   s.partial_cmp(&t)    on two clocks of the same kind, of any two n_procs,
\*   new(i, n)            on any index and any process count, i >= n included.
CallInit ==
    /\ \/ \E n \in 1..CallVecN :
              \E f \in VClocks(n) :
                  \E e \in VClocks(n) :
                      call = [op |-> "merge", kind |-> "vector", f1 |-> f, e1 |-> e]
       \/ \E n \in 1..CallMatN :
              \E f \in MClocks(n) :
                  \E e \in MClocks(n) :
                      call = [op |-> "merge", kind |-> "matrix", f1 |-> f, e1 |-> e]
       \/ \E n \in 1..CallVecN :
              \E c \in VClocks(n) :
                  call = [op |-> "extend", kind |-> "vector", c |-> c]
       \/ \E n \in 1..CallMatN :
              \E c \in MClocks(n) :
                  call = [op |-> "extend", kind |-> "matrix", c |-> c]
       \/ \E n1 \in 1..CallVecN :
              \E n2 \in 1..CallVecN :
                  \E s \in VClocks(n1) :
                      \E t \in VClocks(n2) :
                          call = [op |-> "cmp", kind |-> "vector", s |-> s, t |-> t]
       \/ \E n1 \in 1..CallMatN :
              \E n2 \in 1..CallMatN :
                  \E s \in MClocks(n1) :
                      \E t \in MClocks(n2) :
                          call = [op |-> "cmp", kind |-> "matrix", s |-> s, t |-> t]
       \/ \E i \in 0..CallVecN :
              \E n \in 0..CallVecN :
                  \E kind \in {"vector", "matrix"} :
                      call = [op |-> "new", kind |-> kind, i |-> i, n |-> n]
    /\ result = [done |-> FALSE]

\* f1.merge(&e1) on vector clocks.
CallVMerge ==
    /\ ~result.done
    /\ call.op = "merge"
    /\ call.kind = "vector"
    /\ result' = [done |-> TRUE, val |-> VMerge(call.f1, call.e1)]
    /\ UNCHANGED call

\* f1.merge(&e1) on matrix clocks.
CallMMerge ==
    /\ ~result.done
    /\ call.op = "merge"
    /\ call.kind = "matrix"
    /\ result' = [done |-> TRUE, val |-> MMerge(call.f1, call.e1)]
    /\ UNCHANGED call

\* c.extend() on a vector clock.
CallVExtend ==
    /\ ~result.done
    /\ call.op = "extend"
    /\ call.kind = "vector"
    /\ result' = [done |-> TRUE, val |-> VExtend(call.c)]
    /\ UNCHANGED call

\* c.extend() on a matrix clock.
CallMExtend ==
    /\ ~result.done
    /\ call.op = "extend"
    /\ call.kind = "matrix"
    /\ result' = [done |-> TRUE, val |-> MExtend(call.c)]
    /\ UNCHANGED call

\* s.partial_cmp(&t) on vector clocks.
CallVCmp ==
    /\ ~result.done
    /\ call.op = "cmp"
    /\ call.kind = "vector"
    /\ result' = [done |-> TRUE, val |-> VPartialCmp(call.s, call.t)]
    /\ UNCHANGED call

\* s.partial_cmp(&t) on matrix clocks.
CallMCmp ==
    /\ ~result.done
    /\ call.op = "cmp"
    /\ call.kind = "matrix"
    /\ result' = [done |-> TRUE, val |-> MPartialCmp(call.s, call.t)]
    /\ UNCHANGED call

\* VectorClock::new(i, n): the assertion of lines 33-36 panics before anything
\* is built when i >= n.
CallVNew ==
    /\ ~result.done
    /\ call.op = "new"
    /\ call.kind = "vector"
    /\ result' = IF VNewAssert(call.i, call.n)
                    THEN [done |-> TRUE, panic |-> FALSE, val |-> VNew(call.i, call.n)]
                    ELSE [done |-> TRUE, panic |-> TRUE]
    /\ UNCHANGED call

\* MatrixClock::new(i, n): the function holds no assertion and no indexing, so
\* it returns for every i and n.
CallMNew ==
    /\ ~result.done
    /\ call.op = "new"
    /\ call.kind = "matrix"
    /\ result' = [done |-> TRUE, panic |-> FALSE, val |-> MNew(call.i, call.n)]
    /\ UNCHANGED call

CallNext ==
    /\ \/ CallVMerge
       \/ CallMMerge
       \/ CallVExtend
       \/ CallMExtend
       \/ CallVCmp
       \/ CallMCmp
       \/ CallVNew
       \/ CallMNew
    /\ UNCHANGED <<petersonVars, clockVars, ringVars>>

ArgsInit == CallInit /\ PetersonInit /\ NoClocks /\ NoRing
SpecCall == ArgsInit /\ [][CallNext]_vars

Spec == SpecPeterson

\* The cut a linear scan finds: the largest p such that each of the first p
\* events of s is stable relative to latest.
RECURSIVE LinearScan(_, _, _)
LinearScan(s, latest, p) ==
    IF p < Len(s) /\ MStable(s[p + 1], latest) THEN LinearScan(s, latest, p + 1) ELSE p

\* C4: whenever gc at process i evicts an event with sequence number s, every
\* process k of the run has a most recent event, and that event's own row
\* has at column i a counter >= s.
C4_GcSafety ==
    [][ret'.op = "gc" =>
          \A x \in 1..Len(ret'.val) :
              \A k \in Procs :
                  /\ gp[k].events # <<>>
                  /\ Last(gp[k].events).clk[k][ret'.p]
                         >= ret'.val[x].clk[ret'.p][ret'.p]]_vars

\* C4 witness: in a run of three processes a gc has just evicted events.
C4_Witness == nprocs >= 3 /\ ret.op = "gc" /\ Len(ret.val) >= 1

\* C5: on every reachable log the binary-search cut of gc equals the cut of a
\* linear scan, and a gc step evicts exactly that prefix: every evicted event
\* is stable relative to the last event of the log, the first remaining one is not.
C5_GcCutExact ==
    /\ [](\A i \in Procs :
            gp[i].events # <<>> =>
                GcCut(gp[i]) = LinearScan(gp[i].events, Last(gp[i].events), 0))
    /\ [][ret'.op = "gc" =>
            LET old == gp[ret'.p].events
                p == IF old = <<>> THEN 0 ELSE LinearScan(old, Last(old), 0)
            IN  /\ ret'.val = SubSeq(old, 1, p)
                /\ gp'[ret'.p].events = SubSeq(old, p + 1, Len(old))
                /\ \A x \in 1..Len(ret'.val) : MStable(ret'.val[x], Last(old))
                /\ p < Len(old) => ~MStable(old[p + 1], Last(old))]_vars

\* C5 witness: a gc has evicted a proper, non-empty prefix of a log of three events.
C5_Witness ==
    /\ ret.op = "gc"
    /\ Len(ret.val) >= 1
    /\ Len(gp[ret.p].events) >= 1
    /\ Len(ret.val) + Len(gp[ret.p].events) >= 3

\* C6: in the ring scenario, for every n and m drawn: the gc after the m
\* local events of process 0 returns nothing and leaves m events; the gc
\* after each hop returns nothing and leaves m + 1 events; the gc after the
\* receive that closes the ring returns m + 1 events and leaves one, the
\* receive event.
C6_RingScenario ==
    /\ (ringPc = "send" /\ ringK = 0) =>
           /\ ret.op = "gc" /\ ret.val = <<>>
           /\ Len(GcEvents(gp[0])) = ringM
           /\ Len(gp[0].events) = ringM
    /\ ((ringPc = "send" /\ ringK >= 1) \/ ringPc = "lastsend") =>
           /\ ret.op = "gc" /\ ret.val = <<>>
           /\ Len(GcEvents(gp[0])) = ringM + 1
           /\ Len(gp[0].events) = ringM + 1
    /\ ringPc = "done" =>
           /\ ret.op = "gc" /\ Len(ret.val) = ringM + 1
           /\ Len(GcEvents(gp[0])) = 1
           /\ Len(gp[0].events) = 1
           /\ gp[0].events[1].clk[0][0] = ringM + 2

\* C6 witness: the test has run to its end with the most processes and more than one local event.
C6_Witness == ringPc = "done" /\ nprocs = RingMaxN /\ ringM >= 2 /\ Len(ret.val) >= 3

\* C7: in every event log, of a vector-clock process and of a GC-capable
\* process, each event compares Less than the event appended after it.
C7_LogMonotone ==
    \A i \in Procs :
        /\ \A k \in 1..(Len(vp[i]) - 1) : VPartialCmp(vp[i][k], vp[i][k + 1]) = "Less"
        /\ \A k \in 1..(Len(gp[i].events) - 1) :
               MPartialCmp(gp[i].events[k], gp[i].events[k + 1]) = "Less"

\* C7 witness: a process whose logs hold a local event, then a receive, then another event.
C7_Witness ==
    \E i \in Procs :
        /\ Len(vp[i]) >= 3
        /\ Len(gp[i].events) >= 3
        /\ vpast[i][1] = {}
        /\ \E s \in vpast[i][2] : s[1] # i

\* C8: an event that reaches another process through a chain of send/receive
\* hops compares Less than the receive event at that process and than every
\* later event of it, as vector clocks and as matrix clocks.
C8_CausalChains ==
    \A q \in Procs :
        \A k \in 1..Len(vp[q]) :
            \A s \in vpast[q][k] :
                s[1] # q =>
                    /\ VPartialCmp(vp[s[1]][s[2]], vp[q][k]) = "Less"
                    /\ MPartialCmp(mall[s[1]][s[2]], mall[q][k]) = "Less"

\* C8 witness: a relay 0 -> 1 -> 2: an event of process 2 follows an event of
\* process 1 that follows the second event of process 0, and process 2 has a later event.
C8_Witness ==
    /\ nprocs >= 3
    /\ \E k \in 1..Len(vp[2]) :
           /\ k < Len(vp[2])
           /\ \E j \in 1..Len(vp[1]) :
                  /\ <<1, j>> \in vpast[2][k]
                  /\ <<0, 2>> \in vpast[1][j]
                  /\ \A e \in 1..Len(vp[2]) : e < k => <<0, 2>> \notin vpast[2][e]

\* The events generated so far in the run: <<i, k>> is event k of process i.
Events == UNION {{<<i, k>> : k \in 1..Len(vp[i])} : i \in Procs}
HappensBefore(s, t) == s \in vpast[t[1]][t[2]]
VClockOf(s) == vp[s[1]][s[2]]

\* C9: an event compares Less than another exactly when it happens before
\* it, and two distinct events unrelated by happens-before are incomparable
\* in both directions.
C9_HappensBefore ==
    \A s \in Events :
        \A t \in Events :
            LET c == VPartialCmp(VClockOf(s), VClockOf(t))
            IN  /\ (c = "Less") <=> HappensBefore(s, t)
                /\ (s # t /\ ~HappensBefore(s, t) /\ ~HappensBefore(t, s)) => c = "None"

\* C9 witness: a sender's event generated after its send and the receive of
\* that send are unrelated by happens-before.
C9_Witness ==
    \E s \in Events :
        \E t \in Events :
            /\ s[1] # t[1]
            /\ s[2] >= 2
            /\ HappensBefore(<<s[1], s[2] - 1>>, t)
            /\ ~HappensBefore(s, t)
            /\ ~HappensBefore(t, s)

\* C10: f2 = merge(f1, e1) on clocks of one kind and one n_procs: e1 and f1
\* both compare Less than f2, and f2 compares Greater than both; for vector
\* clocks when e1's counter at f1's index is at most f1's own, for matrix
\* clocks under the comparison of the whole matrix.
C10_MergeDominance ==
    (result.done /\ call.op = "merge") =>
        /\ (call.kind = "vector" /\ call.e1.clk[call.f1.i] <= call.f1.clk[call.f1.i]) =>
               /\ VPartialCmp(call.e1, result.val) = "Less"
               /\ VPartialCmp(call.f1, result.val) = "Less"
               /\ VPartialCmp(result.val, call.e1) = "Greater"
               /\ VPartialCmp(result.val, call.f1) = "Greater"
        /\ call.kind = "matrix" =>
               /\ MPartialCmp(call.e1, result.val) = "Less"
               /\ MPartialCmp(call.f1, result.val) = "Less"
               /\ MPartialCmp(result.val, call.e1) = "Greater"
               /\ MPartialCmp(result.val, call.f1) = "Greater"

\* C10 witness: two incomparable matrix clocks of two processes have been
\* merged, the received one ahead of the receiver in the receiver's own row.
C10_Witness ==
    /\ result.done
    /\ call.op = "merge"
    /\ call.kind = "matrix"
    /\ Size(call.f1.clk) = 2
    /\ MPartialCmp(call.f1, call.e1) = "None"
    /\ call.e1.clk[call.f1.i][1 - call.f1.i] > call.f1.clk[call.f1.i][1 - call.f1.i]

\* C1: Role A and Role B are never both Held.
C1_MutualExclusion == ~(pcA \in Held /\ pcB \in Held)

\* C1 witness: one role is Held while the other has done both stores and spins.
C1_Witness == pcA \in Held /\ pcB = "ldt" /\ a_wants /\ b_wants

\* C2: under fair scheduling every acquire that has begun returns.
C2_StarvationFreedom ==
    /\ (pcA \in Acquiring) ~> (pcA \in Held)
    /\ (pcB \in Acquiring) ~> (pcB \in Held)

\* C2 witness: A has to spin while B, which was Held, has released and asks again.
C2_Witness == pcA = "ldt" /\ aWaited /\ pcB = "turn"

\* C3: a role that waited while the other was Held is not overtaken: the
\* other role does not reach Held again before the waiting role has reached
\* Held and released.
C3_TurnYielding ==
    [][/\ (bWaited /\ pcA \notin Held) => pcA' \notin Held
       /\ (aWaited /\ pcB \notin Held) => pcB' \notin Held]_vars

\* C3 witness: B waited on A, A released and re-attempts acquire and spins in its turn.
C3_Witness == bWaited /\ pcB \in Spinning /\ pcA = "ldt"

(***************************************************************************)
(* C11: local monotonicity.  After c.extend() on a vector or a matrix      *)
(* clock, the clock before compares Less to the clock after, the clock     *)
(* after compares Greater to the clock before, and the step added exactly  *)
(* one to the owner's own counter: every other counter and the owner       *)
(* index are as they were.                                                 *)
(***************************************************************************)
C11_LocalMonotonicity ==
    (result.done /\ call.op = "extend") =>
        LET c == call.c
            d == result.val
        IN  /\ d.i = c.i
            /\ DOMAIN d.clk = DOMAIN c.clk
            /\ IF call.kind = "vector"
                  THEN /\ VPartialCmp(c, d) = "Less"
                       /\ VPartialCmp(d, c) = "Greater"
                       /\ \A k \in DOMAIN c.clk :
                              d.clk[k] = c.clk[k] + (IF k = c.i THEN 1 ELSE 0)
                  ELSE /\ MPartialCmp(c, d) = "Less"
                       /\ MPartialCmp(d, c) = "Greater"
                       /\ \A r \in DOMAIN c.clk :
                              /\ DOMAIN d.clk[r] = DOMAIN c.clk[r]
                              /\ \A k \in DOMAIN c.clk[r] :
                                     d.clk[r][k] = c.clk[r][k]
                                         + (IF r = c.i /\ k = c.i THEN 1 ELSE 0)

\* An extend of a matrix clock of two processes, owner 1, has returned.
C11_Witness ==
    /\ result.done
    /\ call.op = "extend"
    /\ call.kind = "matrix"
    /\ call.c.i = 1
    /\ Size(call.c.clk) = 2
    /\ call.c.clk[0][1] = 2
    /\ result.val.clk[1][1] = call.c.clk[1][1] + 1

(***************************************************************************)
(* C12: compare is the componentwise order.  Over the positions of a clock *)
(* (the n counters of a vector clock, all n*n entries of a matrix clock):  *)
(* Equal iff every pair of counters is equal, Less iff every counter of    *)
(* the first is <= and one is <, Greater symmetrically, incomparable iff   *)
(* one counter is < and another is >; clocks of different n_procs are      *)
(* incomparable.                                                           *)
(***************************************************************************)
\* The positions of a clock of either kind, and the counter at a position.
Positions(kind, c) ==
    IF kind = "vector" THEN {<<k>> : k \in DOMAIN c.clk}
    ELSE {<<r, k>> : r \in DOMAIN c.clk, k \in DOMAIN c.clk}
At(kind, c, pos) ==
    IF kind = "vector" THEN c.clk[pos[1]] ELSE c.clk[pos[1]][pos[2]]

\* The order the definition gives to two clocks of one kind.
Componentwise(kind, s, t) ==
    IF Size(s.clk) # Size(t.clk) THEN "None"
    ELSE LET P == Positions(kind, s)
             lt == \E pos \in P : At(kind, s, pos) < At(kind, t, pos)
             gt == \E pos \in P : At(kind, s, pos) > At(kind, t, pos)
         IN  IF lt /\ gt THEN "None"
             ELSE IF lt THEN "Less"
             ELSE IF gt THEN "Greater"
             ELSE "Equal"

C12_CompareIsComponentwise ==
    (result.done /\ call.op = "cmp") =>
        result.val = Componentwise(call.kind, call.s, call.t)

\* Two matrix clocks of two processes whose owner rows are equal and whose
\* other rows differ in opposite directions have been found incomparable.
C12_Witness ==
    /\ result.done
    /\ call.op = "cmp"
    /\ call.kind = "matrix"
    /\ Size(call.s.clk) = 2
    /\ Size(call.t.clk) = 2
    /\ call.s.i = 0
    /\ call.s.clk[0] = call.t.clk[0]
    /\ call.s.clk[1][0] < call.t.clk[1][0]
    /\ call.s.clk[1][1] > call.t.clk[1][1]
    /\ result.val = "None"

\* Two vector clocks of different n_procs have been found incomparable.
C12_WitnessShapes ==
    /\ result.done
    /\ call.op = "cmp"
    /\ call.kind = "vector"
    /\ Size(call.s.clk) # Size(call.t.clk)
    /\ result.val = "None"

(***************************************************************************)
(* C13: construction error.  Creating a clock of either kind for a process *)
(* index i >= n_procs fails at once with an assertion failure and returns  *)
(* no clock; with i < n_procs the call returns the unit clock of process   *)
(* i: a vector clock whose only non-zero counter is 1 at i, a matrix clock *)
(* of n rows of length n whose only non-zero entry is 1 at (i, i).         *)
(***************************************************************************)
C13_CreateFailsFast ==
    (result.done /\ call.op = "new") =>
        IF call.i >= call.n
          THEN result.panic
          ELSE /\ ~result.panic
               /\ result.val.i = call.i
               /\ DOMAIN result.val.clk = 0..(call.n - 1)
               /\ IF call.kind = "vector"
                     THEN \A k \in 0..(call.n - 1) :
                              result.val.clk[k] = IF k = call.i THEN 1 ELSE 0
                     ELSE \A r \in 0..(call.n - 1) :
                              /\ DOMAIN result.val.clk[r] = 0..(call.n - 1)
                              /\ \A k \in 0..(call.n - 1) :
                                     result.val.clk[r][k] =
                                         IF r = call.i /\ k = call.i THEN 1 ELSE 0

\* The half of the claim the vector clock meets: the same statement for
\* VectorClock::new alone.
C13_VectorCreateFailsFast ==
    call.kind = "vector" => C13_CreateFailsFast

\* MatrixClock::new(2, 2) has returned a clock.
C13_MatrixReturns ==
    /\ result.done
    /\ call.op = "new"
    /\ call.kind = "matrix"
    /\ call.i = 2
    /\ call.n = 2
    /\ ~result.panic
    /\ result.val = [i |-> 2, clk |-> [r \in 0..1 |-> [k \in 0..1 |-> 0]]]

(***************************************************************************)
(* C14: the read-only view is the whole log.  After any sequence of        *)
(* appends and garbage collections, events() of every process returns      *)
(* every event appended and not yet evicted, oldest first: the log itself, *)
(* which is the tail of everything the process appended; its length is the *)
(* number of events appended minus the number evicted.                     *)
(***************************************************************************)
C14_EventsIsWholeLog ==
    \A i \in Procs :
        LET all == mall[i]
            log == gp[i].events
        IN  /\ Len(log) <= Len(all)
            /\ log = SubSeq(all, Len(all) - Len(log) + 1, Len(all))
            /\ GcEvents(gp[i]) = log
            /\ Len(GcEvents(gp[i])) = Len(log)

\* A log that wraps around the end of its buffer: events() returns a proper
\* prefix of it.
C14_Truncated ==
    \E i \in Procs :
        /\ gp[i].head + Len(gp[i].events) > gp[i].cap
        /\ Len(GcEvents(gp[i])) < Len(gp[i].events)
        /\ GcEvents(gp[i]) = SubSeq(gp[i].events, 1, gp[i].cap - gp[i].head)

(***************************************************************************)
(* C15: stability is monotone along the log.  In every log reachable by    *)
(* exec, send, recv and gc, with latest the last event of the log: an      *)
(* event that is stable against latest has only stable events before it,   *)
(* so the stable events are a prefix of the log, the others a suffix, and  *)
(* the cut of gc is the number of stable events.                           *)
(***************************************************************************)
StableAt(i, k) == MStable(gp[i].events[k], Last(gp[i].events))

C15_StabilityMonotone ==
    \A i \in Procs :
        gp[i].events # <<>> =>
            /\ \A k \in 1..Len(gp[i].events) :
                   \A l \in k..Len(gp[i].events) :
                       StableAt(i, l) => StableAt(i, k)
            /\ GcCut(gp[i]) =
                   Cardinality({k \in 1..Len(gp[i].events) : StableAt(i, k)})

\* A log with a stable prefix of two events and an unstable suffix of two.
C15_Witness ==
    \E i \in Procs :
        /\ Len(gp[i].events) = 4
        /\ StableAt(i, 2)
        /\ ~StableAt(i, 3)
        /\ GcCut(gp[i]) = 2

(***************************************************************************)
(* C16: gc only splits the log.  For every call of gc: the events returned *)
(* followed by the events left are the log as it was before the call, in   *)
(* the same order; gc on an empty log returns nothing and leaves the log   *)
(* empty; no other log changes; and a gc called again right after a gc of  *)
(* the same process, with no event in between, returns nothing.            *)
(***************************************************************************)
C16_GcStep ==
    ret'.op = "gc" =>
        LET p == ret'.p
        IN  /\ ret'.val \o gp'[p].events = gp[p].events
            /\ gp[p].events = <<>> => (ret'.val = <<>> /\ gp'[p].events = <<>>)
            /\ \A j \in Procs \ {p} : gp'[j] = gp[j]
            /\ (ret.op = "gc" /\ ret.p = p) => ret'.val = <<>>

C16_GcThenNothingToCollect ==
    ret.op = "gc" => (GcEvicted(gp[ret.p]) = <<>> /\ GcKept(gp[ret.p]) = gp[ret.p])

C16_GcSplitsLog == [][C16_GcStep]_vars /\ []C16_GcThenNothingToCollect

\* A gc has just returned two events and left two in the log.
C16_Witness ==
    /\ ret.op = "gc"
    /\ Len(ret.val) = 2
    /\ Len(gp[ret.p].events) = 2

(***************************************************************************)
(* C17: the matrix clock refines the vector clock.  When a vector-clock    *)
(* process and a matrix-clock process run the same schedule of exec, send  *)
(* and recv with no gc, then at every process i and every position k of    *)
(* its log, row i of the k-th matrix clock is the k-th vector clock,       *)
(* counter for counter, and both have owner i.                             *)
(***************************************************************************)
C17_MatrixRefinesVector ==
    \A i \in Procs :
        /\ Len(gp[i].events) = Len(vp[i])
        /\ \A k \in 1..Len(vp[i]) :
               /\ gp[i].events[k].i = vp[i][k].i
               /\ gp[i].events[k].clk[i] = vp[i][k].clk

\* Three processes, and a process that has received from both others: its
\* last matrix clock, made by two merges, has no zero in its owner row.
C17_Witness ==
    /\ nprocs = 3
    /\ \E i \in Procs :
           /\ Len(vp[i]) >= 2
           /\ \A c \in Procs : Last(vp[i]).clk[c] >= 1
           /\ Last(gp[i].events).clk[i] = Last(vp[i]).clk

(***************************************************************************)
(* C18: uncontended progress.  While the other role is Idle, a role's      *)
(* acquire goes from Idle through its two stores to one evaluation of the  *)
(* spin condition, which ends the loop whatever the turn flag is: the      *)
(* guard is held after three steps.  An Idle role's want flag is false.  A *)
(* role goes round its loop only after it has read the other's want flag   *)
(* true and then the turn in the other's favour (the condition is two      *)
(* loads, read one after the other), and the two spin conditions are never *)
(* true in the same state.                                                 *)
(***************************************************************************)
SpinCondA == b_wants /\ ~a_turn
SpinCondB == a_wants /\ a_turn

C18_UncontendedStep ==
    /\ (pcB = "idle" /\ pcB' = "idle" /\ pcA' # pcA /\ pcA \in {"idle", "turn", "ldw"}) =>
           /\ pcA = "idle" => (pcA' = "turn" /\ a_wants')
           /\ pcA = "turn" => pcA' = "ldw"
           /\ pcA = "ldw" => pcA' = "cs0"
    /\ (pcA = "idle" /\ pcA' = "idle" /\ pcB' # pcB /\ pcB \in {"idle", "turn", "ldw"}) =>
           /\ pcB = "idle" => (pcB' = "turn" /\ b_wants')
           /\ pcB = "turn" => pcB' = "ldw"
           /\ pcB = "ldw" => pcB' = "cs0"
    /\ (pcA = "ldw" /\ pcA' = "ldt") => b_wants
    /\ (pcA = "ldt" /\ pcA' = "ldw") => ~a_turn
    /\ (pcB = "ldw" /\ pcB' = "ldt") => a_wants
    /\ (pcB = "ldt" /\ pcB' = "ldw") => a_turn

C18_IdleAndSpin ==
    /\ pcA = "idle" => ~a_wants
    /\ pcB = "idle" => ~b_wants
    /\ ~(SpinCondA /\ SpinCondB)

C18_UncontendedProgress == [][C18_UncontendedStep]_vars /\ []C18_IdleAndSpin

\* A holds the guard, B is Idle and has run before (it moved the counters),
\* and A did not have to wait for B in this acquire.
C18_Witness ==
    /\ pcA = "cs0"
    /\ pcB = "idle"
    /\ ~b_wants
    /\ ~aWaited
    /\ data[0] # 0

(***************************************************************************)
(* C19: gc never evicts the newest event.  As claimed, for every n_procs   *)
(* >= 1: the last event of a non-empty log is not stable relative to       *)
(* itself; gc leaves a non-empty log non-empty with the same last event;   *)
(* and the sequence numbers of the events a process generates are strictly *)
(* increasing over its whole lifetime, across gc calls.                    *)
(***************************************************************************)
Seq_(c) == c.clk[c.i][c.i]

C19_LastNotStable ==
    \A i \in Procs :
        gp[i].events # <<>> => ~MStable(Last(gp[i].events), Last(gp[i].events))

C19_SeqIncreasing ==
    \A i \in Procs :
        \A k \in 1..(Len(mall[i]) - 1) : Seq_(mall[i][k]) < Seq_(mall[i][k + 1])

C19_GcKeepsLast ==
    (ret'.op = "gc" /\ gp[ret'.p].events # <<>>) =>
        /\ gp'[ret'.p].events # <<>>
        /\ Last(gp'[ret'.p].events) = Last(gp[ret'.p].events)

C19_NewestNeverEvicted ==
    /\ [](C19_LastNotStable /\ C19_SeqIncreasing)
    /\ [][C19_GcKeepsLast]_vars

\* The same for n_procs >= 2.
C19_NewestNeverEvicted_TwoOrMore ==
    /\ [](nprocs >= 2 => (C19_LastNotStable /\ C19_SeqIncreasing))
    /\ [][nprocs >= 2 => C19_GcKeepsLast]_vars

\* Two or more processes: a gc has evicted events and left the newest one,
\* and the process has generated a further event since.
C19_Witness ==
    /\ nprocs >= 2
    /\ \E i \in Procs :
           /\ gp[i].events # <<>>
           /\ Len(gp[i].events) < Len(mall[i])
           /\ Len(gp[i].events) >= 2
           /\ Last(gp[i].events) = Last(mall[i])

\* One process: gc has emptied the log and the next event started again
\* from sequence number 1.
C19_SingleProcessRestart ==
    /\ nprocs = 1
    /\ Len(mall[0]) >= 2
    /\ Seq_(Last(mall[0])) = 1

(***************************************************************************)
(* C20: owner-row dominance.  Every matrix clock a process of a run has    *)
(* generated, and every one in flight, with owner i: its owner row is at   *)
(* least every other row, column by column (clk[i][c] >= clk[k][c]), and   *)
(* with two or more processes its diagonal entry is strictly larger than   *)
(* the rest of its column (clk[i][i] > clk[k][i] for k # i).               *)
(***************************************************************************)
OwnerRowDominates(m) ==
    /\ \A k \in DOMAIN m.clk :
           \A c \in DOMAIN m.clk : m.clk[m.i][c] >= m.clk[k][c]
    /\ \A k \in DOMAIN m.clk : k # m.i => m.clk[m.i][m.i] > m.clk[k][m.i]

C20_OwnerRowDominance ==
    /\ \A i \in Procs :
           \A k \in 1..Len(mall[i]) :
               /\ mall[i][k].i = i
               /\ OwnerRowDominates(mall[i][k])
    /\ \A m \in net : OwnerRowDominates(m.mc)

\* A clock made by merge whose other rows are not all zero: the owner has
\* learnt what another process knows of a third.
C20_Witness ==
    /\ nprocs = 3
    /\ \E i \in Procs :
           \E k \in Procs \ {i} :
               \E c \in Procs \ {i, k} :
                   /\ mall[i] # <<>>
                   /\ Last(mall[i]).clk[k][c] >= 1
                   /\ Last(mall[i]).clk[k][k] >= 2

(***************************************************************************)
(* C21: the precondition of the vector merge holds in every run.  When the *)
(* processes exchange clocks only by send and receive, in any delivery     *)
(* order: every clock in a log or in flight has at every index i a counter *)
(* that is at most process i's own current counter; so for every message   *)
(* a process may receive, both assertions of merge hold (same n_procs, own *)
(* counter >= the counter received for it); and each event of a process    *)
(* has an own counter one above that of the event before it.               *)
(***************************************************************************)
\* Process i's own current counter: 0 before its first event.
OwnCounter(i) == IF vp[i] = <<>> THEN 0 ELSE Last(vp[i]).clk[i]

\* The clock a receive at process i merges into.
MergeTarget(i, e) == IF vp[i] = <<>> THEN VNew(i, Size(e.clk)) ELSE Last(vp[i])

C21_MergePrecondition ==
    \A i \in Procs :
        /\ \A j \in Procs :
               \A k \in 1..Len(vp[j]) : vp[j][k].clk[i] <= OwnCounter(i)
        /\ \A m \in net :
               /\ m.vc.clk[i] <= OwnCounter(i)
               /\ m.from # i => VMergeAssert(MergeTarget(i, m.vc), m.vc)
        /\ \A k \in 1..(Len(vp[i]) - 1) :
               vp[i][k + 1].clk[i] = vp[i][k].clk[i] + 1

\* A message in flight to a process tells it of its own newest event: the
\* assertion of the merge holds with equality.
C21_Witness ==
    \E m \in net :
        \E i \in Procs \ {m.from} :
            /\ vp[i] # <<>>
            /\ OwnCounter(i) >= 2
            /\ m.vc.clk[i] = OwnCounter(i)
            /\ VMergeAssert(Last(vp[i]), m.vc)

(***************************************************************************)
(* C22: distinct events never compare Equal.  As claimed, in any run, for  *)
(* vector-clock processes and likewise for matrix-clock processes: two     *)
(* different events, of one process or of two, never have the same         *)
(* counters, so partial_cmp returns Equal only for an event compared with  *)
(* itself, and == of vector clocks (equal owner and equal counters) holds  *)
(* exactly when partial_cmp returns Equal.                                 *)
(***************************************************************************)
\* The logs only grow, so of any two events one was the newest of its
\* process in the state where both first existed: comparing the newest
\* event of every process with every event, in every state, compares every
\* pair of events.  An event is a process and a position in what it generated.
C22_VectorDistinct ==
    \A i \in Procs :
        \A j \in Procs :
            \A l \in 1..Len(vp[j]) :
                vp[i] # <<>> =>
                    LET same == (i = j /\ l = Len(vp[i]))
                        ord == VPartialCmp(Last(vp[i]), vp[j][l])
                    IN  /\ (ord = "Equal") <=> same
                        /\ (VPartialCmp(vp[j][l], Last(vp[i])) = "Equal") <=> same
                        /\ VEq(Last(vp[i]), vp[j][l]) <=> (ord = "Equal")

C22_MatrixDistinct ==
    \A i \in Procs :
        \A j \in Procs :
            \A l \in 1..Len(mall[j]) :
                mall[i] # <<>> =>
                    LET same == (i = j /\ l = Len(mall[i]))
                    IN  /\ (MPartialCmp(Last(mall[i]), mall[j][l]) = "Equal") <=> same
                        /\ (MPartialCmp(mall[j][l], Last(mall[i])) = "Equal") <=> same

C22_DistinctNeverEqual == C22_VectorDistinct /\ C22_MatrixDistinct

\* The same, for matrix-clock processes only when there are two or more.
C22_DistinctNeverEqual_TwoOrMore ==
    C22_VectorDistinct /\ (nprocs >= 2 => C22_MatrixDistinct)

\* Two processes, after gc calls, with events of one process and of both
\* to compare: one has evicted events and gone on, the other has three.
C22_Witness ==
    /\ nprocs >= 2
    /\ \E i \in Procs :
           \E j \in Procs \ {i} :
               /\ Len(mall[i]) >= 3
               /\ Len(gp[i].events) < Len(mall[i])
               /\ Len(mall[j]) >= 3
               /\ MPartialCmp(Last(mall[i]), Last(mall[j])) = "None"

\* One process: after a gc that emptied the log, its next event has the
\* counters of its first.
C22_SingleProcessRepeat ==
    /\ nprocs = 1
    /\ Len(mall[0]) >= 2
    /\ MPartialCmp(mall[0][1], Last(mall[0])) = "Equal"

====
